---- MODULE Spec2Model ----
(***************************************************************************)
(* A model of the Ubuntu package manager of src/main.rs: the three source  *)
(* parsers (APT, Flatpak, Snap), the load aggregator, the filter predicate *)
(* and the application state with its update loop.                         *)
(*                                                                         *)
(* A string is a sequence of one-character strings, so that prefix, suffix *)
(* and substring tests, trimming, splitting and case folding are computed  *)
(* character by character as the code computes them.                       *)
(***************************************************************************)
EXTENDS Naturals, Sequences, FiniteSets, TLC

VARIABLES
    host,               \* the outcome of each external command on this machine
    apt_packages,       \* AppState.apt_packages
    flatpak_packages,   \* AppState.flatpak_packages
    snap_packages,      \* AppState.snap_packages
    current_page,       \* AppState.current_page
    name_search,        \* AppState.name_search
    source_search,      \* AppState.source_search
    include_system,     \* AppState.include_system
    pc,                 \* position of the load task started by AppState::new
    errors,             \* load_app_lists: errors
    apt_apps,           \* load_app_lists: apt_apps
    flatpak_apps,       \* load_app_lists: flatpak_apps
    snap_apps,          \* load_app_lists: snap_apps
    calls,              \* the source parsers invoked so far, in order
    spawned,            \* the external commands run so far, in order
    result,             \* the Result the load task hands to Message::AppsLoaded
    message,            \* the Message update handled last
    rendered            \* the package list the last call of view displayed

vars == <<host, apt_packages, flatpak_packages, snap_packages, current_page,
          name_search, source_search, include_system, pc, errors, apt_apps,
          flatpak_apps, snap_apps, calls, spawned, result, message, rendered>>

app_state == <<apt_packages, flatpak_packages, snap_packages, current_page,
               name_search, source_search, include_system>>

load_state == <<pc, errors, apt_apps, flatpak_apps, snap_apps, calls, spawned, result>>

-----------------------------------------------------------------------------
(* Bounds of the model. *)

\* the most lines a generated command output holds
MaxLines == 2

\* the most names a generated manual-install listing holds
MaxManual == 2

-----------------------------------------------------------------------------
(* Strings: the operations of str the code uses. *)

\* char::is_whitespace, on the characters of the model
IsWhitespace(c) == c \in {" ", "\t", "\n", "\r"}

UpperCase == <<"A", "B", "C", "D", "E", "F", "G", "H", "I", "J", "K", "L", "M",
               "N", "O", "P", "Q", "R", "S", "T", "U", "V", "W", "X", "Y", "Z">>

LowerCase == <<"a", "b", "c", "d", "e", "f", "g", "h", "i", "j", "k", "l", "m",
               "n", "o", "p", "q", "r", "s", "t", "u", "v", "w", "x", "y", "z">>

\* char::to_lowercase
LowerChar(c) ==
    IF \E i \in 1..Len(UpperCase) : UpperCase[i] = c
    THEN LowerCase[CHOOSE i \in 1..Len(UpperCase) : UpperCase[i] = c]
    ELSE c

\* str::to_lowercase
to_lowercase(s) == [i \in 1..Len(s) |-> LowerChar(s[i])]

\* str::is_empty
is_empty(s) == Len(s) = 0

\* str::starts_with
starts_with(s, p) == Len(p) <= Len(s) /\ SubSeq(s, 1, Len(p)) = p

\* str::ends_with
ends_with(s, p) == Len(p) <= Len(s) /\ SubSeq(s, Len(s) - Len(p) + 1, Len(s)) = p

\* str::contains
contains(s, p) ==
    Len(p) <= Len(s) /\ \E i \in 0..(Len(s) - Len(p)) : SubSeq(s, i + 1, i + Len(p)) = p

\* str::trim
trim(s) ==
    LET keep == {i \in 1..Len(s) : ~IsWhitespace(s[i])}
        lo == CHOOSE i \in keep : \A j \in keep : i <= j
        hi == CHOOSE i \in keep : \A j \in keep : j <= i
    IN  IF keep = {} THEN <<>> ELSE SubSeq(s, lo, hi)

\* str::split(sep): the pieces between the separators, empty pieces kept
RECURSIVE split(_, _)
split(s, sep) ==
    LET at == {i \in 1..Len(s) : s[i] = sep}
        i == CHOOSE k \in at : \A j \in at : k <= j
    IN  IF at = {} THEN <<s>>
        ELSE <<SubSeq(s, 1, i - 1)>> \o split(SubSeq(s, i + 1, Len(s)), sep)

\* str::lines: split at "\n", a "\r" before it dropped, no piece after a final "\n"
lines(s) ==
    LET pieces == split(s, "\n")
        n == Len(pieces)
        ended(k) == k < n
        strip(l) == IF Len(l) > 0 /\ l[Len(l)] = "\r" THEN SubSeq(l, 1, Len(l) - 1) ELSE l
        all == [k \in 1..n |-> IF ended(k) THEN strip(pieces[k]) ELSE pieces[k]]
    IN  IF is_empty(pieces[n]) THEN SubSeq(all, 1, n - 1) ELSE all

\* str::split_whitespace: the maximal runs of non-whitespace characters
RECURSIVE split_whitespace(_)
split_whitespace(s) ==
    LET keep == {i \in 1..Len(s) : ~IsWhitespace(s[i])}
        lo == CHOOSE i \in keep : \A j \in keep : i <= j
        stop == {i \in lo..Len(s) : IsWhitespace(s[i])}
        hi == IF stop = {} THEN Len(s) + 1 ELSE CHOOSE i \in stop : \A j \in stop : i <= j
    IN  IF keep = {} THEN <<>>
        ELSE <<SubSeq(s, lo, hi - 1)>> \o split_whitespace(SubSeq(s, hi, Len(s)))

\* [String]::join(sep)
RECURSIVE join(_, _)
join(parts, sep) ==
    IF Len(parts) = 0 THEN <<>>
    ELSE IF Len(parts) = 1 THEN parts[1]
    ELSE parts[1] \o sep \o join(Tail(parts), sep)

\* the byte no UTF-8 text holds, and the character from_utf8_lossy puts for it
InvalidByte == "0xFF"
ReplacementChar == "U+FFFD"

\* String::from_utf8_lossy
from_utf8_lossy(bytes) ==
    [i \in 1..Len(bytes) |-> IF bytes[i] = InvalidByte THEN ReplacementChar ELSE bytes[i]]

\* Iterator::next on the pieces of a split, with unwrap_or("")
next_or_empty(parts, k) == IF k <= Len(parts) THEN parts[k] ELSE <<>>

-----------------------------------------------------------------------------
(* The data model. *)

\* enum Source
Sources == {"Apt", "Flatpak", "Snap"}

\* enum Page
Pages == {"Apt", "Flatpak", "Snap", "All"}

\* impl Display for Source
SourceDisplay(source) ==
    CASE source = "Flatpak" -> <<"F", "l", "a", "t", "p", "a", "k">>
      [] source = "Apt" -> <<"A", "P", "T">>
      [] source = "Snap" -> <<"S", "n", "a", "p">>

\* struct Package
Package(source, name, version, is_system) ==
    [source |-> source, name |-> name, version |-> version, is_system |-> is_system]

\* struct PackageLists
PackageLists(flatpak, apt, snap) ==
    [flatpak_packages |-> flatpak, apt_packages |-> apt, snap_packages |-> snap]

\* Result::Ok and Result::Err, and the Result not yet produced
Ok(v) == [tag |-> "Ok", value |-> v]
Err(e) == [tag |-> "Err", error |-> e]
Pending == [tag |-> "Pending"]

\* enum Message, and no message handled yet
Message(type, arg) == [type |-> type, arg |-> arg]
NoMessage == Message("None", <<>>)

\* the sequences of a sequence of sequences, one after the other
RECURSIVE Flatten(_)
Flatten(ss) == IF Len(ss) = 0 THEN <<>> ELSE Head(ss) \o Flatten(Tail(ss))

-----------------------------------------------------------------------------
(* The command runner. *)

\* the four external commands
Bins == {"apt-mark", "dpkg-query", "flatpak", "snap"}

BinName(bin) ==
    CASE bin = "apt-mark" -> <<"a", "p", "t", "-", "m", "a", "r", "k">>
      [] bin = "dpkg-query" -> <<"d", "p", "k", "g", "-", "q", "u", "e", "r", "y">>
      [] bin = "flatpak" -> <<"f", "l", "a", "t", "p", "a", "k">>
      [] bin = "snap" -> <<"s", "n", "a", "p">>

\* the character U+0060 of the code's messages, which a TLA+ string cannot hold
Backtick == "[backtick]"

DigitChar == <<"0", "1", "2", "3", "4", "5", "6", "7", "8", "9">>

\* Display of an integer
RECURSIVE Decimal(_)
Decimal(n) ==
    IF n < 10 THEN <<DigitChar[n + 1]>>
    ELSE Decimal(n \div 10) \o <<DigitChar[(n % 10) + 1]>>

\* Display of ExitStatus for a process that exited with a code
StatusDisplay(code) == <<"e", "x", "i", "t", " ", "s", "t", "a", "t", "u", "s", ":", " ">> \o Decimal(code)

\* ExitStatus::success
success(code) == code = 0

\* what Command::output gives: the process could not be started (io_error), or
\* it ran and left an exit code and the bytes of its two streams
SpawnFailure(e) ==
    [launched |-> FALSE, io_error |-> e, code |-> 0, stdout |-> <<>>, stderr |-> <<>>]
Exited(code, out, err) ==
    [launched |-> TRUE, io_error |-> <<>>, code |-> code, stdout |-> out, stderr |-> err]

\* fn run_cmd, given what Command::output gave
run_cmd_output(bin, out) ==
    IF ~out.launched
    THEN Err(<<"f", "a", "i", "l", "e", "d", " ", "t", "o", " ", "r", "u", "n", " ">> \o <<Backtick>> \o BinName(bin) \o <<Backtick>>
             \o <<":", " ">> \o out.io_error)
    ELSE IF ~success(out.code)
    THEN LET stderr == trim(from_utf8_lossy(out.stderr))
         IN  Err(<<Backtick>> \o BinName(bin) \o <<Backtick>> \o <<" ", "e", "x", "i", "t", "e", "d", " ", "w", "i", "t", "h", " ">>
                 \o StatusDisplay(out.code)
                 \o (IF is_empty(stderr) THEN <<>> ELSE <<":", " ">> \o stderr))
    ELSE Ok(from_utf8_lossy(out.stdout))

\* fn run_cmd on a machine h
run_cmd(h, bin) == run_cmd_output(bin, h[bin])

-----------------------------------------------------------------------------
(* The source parsers. *)

\* fn load_manual_set, after its run_cmd
manual_set(out) ==
    LET ls == lines(out)
    IN  {trim(ls[k]) : k \in {j \in 1..Len(ls) : ~is_empty(trim(ls[j]))}}

\* fn load_manual_set
load_manual_set(h) ==
    LET r == run_cmd(h, "apt-mark")
    IN  IF r.tag = "Err" THEN r ELSE Ok(manual_set(r.value))

\* load_apt: let is_lib
is_lib(name) == starts_with(name, <<"l", "i", "b">>)

\* is_meta without its last pattern: the "-common" suffix is forgotten
is_meta_without_common(name) ==
    \/ starts_with(name, <<"l", "i", "n", "u", "x", "-">>)
    \/ starts_with(name, <<"l", "a", "n", "g", "u", "a", "g", "e", "-", "p", "a", "c", "k", "-">>)
    \/ ends_with(name, <<"-", "d", "a", "t", "a">>)

\* load_apt: let is_meta
is_meta(name) ==
    \/ starts_with(name, <<"l", "i", "n", "u", "x", "-">>)
    \/ starts_with(name, <<"l", "a", "n", "g", "u", "a", "g", "e", "-", "p", "a", "c", "k", "-">>)
    \/ ends_with(name, <<"-", "d", "a", "t", "a">>)
    \/ ends_with(name, <<"-", "c", "o", "m", "m", "o", "n">>)

\* load_apt: the is_system field of the record pushed
apt_is_system(name, manual) ==
    LET is_manual == name \in manual
    IN  ~(is_manual /\ ~is_lib(name) /\ ~is_meta(name))

\* apt_line without the check of the name: a record is pushed for every line
apt_line_keeping_empty(line, manual) ==
    LET parts == split(line, "\t")
        name == trim(next_or_empty(parts, 1))
        version == trim(next_or_empty(parts, 2))
    IN  <<Package("Apt", name, version, apt_is_system(name, manual))>>

\* load_apt: the body of its loop, the records one line adds to pkgs
apt_line(line, manual) ==
    LET parts == split(line, "\t")
        name == trim(next_or_empty(parts, 1))
        version == trim(next_or_empty(parts, 2))
    IN  IF is_empty(name) THEN <<>>
        ELSE <<Package("Apt", name, version, apt_is_system(name, manual))>>

\* load_apt: its loop over stdout.lines()
apt_parse(stdout, manual) ==
    LET ls == lines(stdout)
    IN  Flatten([k \in 1..Len(ls) |-> apt_line(ls[k], manual)])

\* fn load_apt
load_apt(h) ==
    LET manual == load_manual_set(h)
        stdout == run_cmd(h, "dpkg-query")
    IN  IF manual.tag = "Err" THEN manual
        ELSE IF stdout.tag = "Err" THEN stdout
        ELSE Ok(apt_parse(stdout.value, manual.value))

\* load_apt: the commands it runs
load_apt_spawns(h) ==
    IF load_manual_set(h).tag = "Err" THEN <<"apt-mark">> ELSE <<"apt-mark", "dpkg-query">>

\* load_flatpak: the body of its loop
flatpak_line(line) ==
    LET cols == split_whitespace(line)
        name == trim(next_or_empty(cols, 1))
        version == trim(next_or_empty(cols, 2))
    IN  IF Len(cols) = 0 THEN <<>>
        ELSE IF is_empty(name) THEN <<>>
        ELSE <<Package("Flatpak", name, version, FALSE)>>

\* load_flatpak: its loop over stdout.lines()
flatpak_parse(stdout) ==
    LET ls == lines(stdout)
    IN  Flatten([k \in 1..Len(ls) |-> flatpak_line(ls[k])])

\* fn load_flatpak
load_flatpak(h) ==
    LET stdout == run_cmd(h, "flatpak")
    IN  IF stdout.tag = "Err" THEN stdout ELSE Ok(flatpak_parse(stdout.value))

\* fn is_snap_runtime
is_snap_runtime(name, notes) ==
    IF contains(notes, <<"b", "a", "s", "e">>) \/ contains(notes, <<"k", "e", "r", "n", "e", "l">>) \/ contains(notes, <<"g", "a", "d", "g", "e", "t">>)
    THEN TRUE
    ELSE \/ starts_with(name, <<"c", "o", "r", "e">>)
         \/ starts_with(name, <<"g", "n", "o", "m", "e", "-">>)
         \/ starts_with(name, <<"g", "t", "k", "-">>)
         \/ starts_with(name, <<"m", "e", "s", "a", "-">>)

\* load_snap: let notes
snap_notes(cols) == IF Len(cols) = 0 THEN <<>> ELSE cols[Len(cols)]

\* load_snap: the body of its loop, for the line of index i (from 0)
snap_line(i, line) ==
    LET cols == split_whitespace(line)
    IN  IF i = 0 THEN <<>>
        ELSE IF Len(cols) < 2 THEN <<>>
        ELSE <<Package("Snap", cols[1], cols[2], is_snap_runtime(cols[1], snap_notes(cols)))>>

\* load_snap: its loop over stdout.lines().enumerate()
snap_parse(stdout) ==
    LET ls == lines(stdout)
    IN  Flatten([k \in 1..Len(ls) |-> snap_line(k - 1, ls[k])])

\* fn load_snap
load_snap(h) ==
    LET stdout == run_cmd(h, "snap")
    IN  IF stdout.tag = "Err" THEN stdout ELSE Ok(snap_parse(stdout.value))

-----------------------------------------------------------------------------
(* The filter engine and the page. *)

\* filter_package comparing the names as they are written, neither side lowercased
filter_package_case_sensitive(pkg, name, source, include) ==
    LET show1 == IF is_empty(name) THEN TRUE ELSE contains(pkg.name, name)
        show2 == IF is_empty(source) THEN show1
                 ELSE show1 /\ contains(to_lowercase(SourceDisplay(pkg.source)),
                                        to_lowercase(source))
    IN  show2 /\ (pkg.is_system = FALSE \/ (pkg.is_system = TRUE /\ include))

\* filter_package with the include_system flag ignored: no system package is shown
filter_package_hiding_system(pkg, name, source, include) ==
    LET show1 == IF is_empty(name) THEN TRUE
                 ELSE contains(to_lowercase(pkg.name), to_lowercase(name))
        show2 == IF is_empty(source) THEN show1
                 ELSE show1 /\ contains(to_lowercase(SourceDisplay(pkg.source)),
                                        to_lowercase(source))
    IN  show2 /\ pkg.is_system = FALSE

\* fn filter_package
filter_package(pkg, name, source, include) ==
    LET show1 == IF is_empty(name) THEN TRUE
                 ELSE contains(to_lowercase(pkg.name), to_lowercase(name))
        show2 == IF is_empty(source) THEN show1
                 ELSE show1 /\ contains(to_lowercase(SourceDisplay(pkg.source)),
                                        to_lowercase(source))
    IN  show2 /\ (pkg.is_system = FALSE \/ (pkg.is_system = TRUE /\ include))

\* get_page: the packages the match on current_page iterates over
page_packages(page, apt, flatpak, snap) ==
    CASE page = "Apt" -> apt
      [] page = "Flatpak" -> flatpak
      [] page = "Snap" -> snap
      [] page = "All" -> apt \o flatpak \o snap

\* fn get_page: let filtered
get_page(page, apt, flatpak, snap, name, source, include) ==
    LET all == page_packages(page, apt, flatpak, snap)
        keep(pkg) == filter_package(pkg, name, source, include)
    IN  SelectSeq(all, keep)

-----------------------------------------------------------------------------
(* The machines the program is run on: what each external command gives. *)

\* lines `apt-mark showmanual` can print
ManualLines ==
    << <<"h", "t", "o", "p">>, <<"l", "i", "b", "x">>, <<"l", "i", "n", "u", "x", "-", "a">>, <<"l", "a", "n", "g", "u", "a", "g", "e", "-", "p", "a", "c", "k", "-", "b">>, <<"x", "-", "d", "a", "t", "a">>, <<"y", "-", "c", "o", "m", "m", "o", "n">>,
       <<" ", "v", "i", "m", " ">>, <<"l", "i", "n", "u", "x">> >>

\* lines `dpkg-query -W` can print: name, a tab, version
DpkgLines ==
    << <<"h", "t", "o", "p", "\t", "3", ".", "0">>, <<"l", "i", "b", "x", "\t", "1">>, <<"l", "i", "n", "u", "x", "-", "a", "\t", "5">>, <<"l", "a", "n", "g", "u", "a", "g", "e", "-", "p", "a", "c", "k", "-", "b", "\t", "1">>, <<"x", "-", "d", "a", "t", "a", "\t", "2">>,
       <<"y", "-", "c", "o", "m", "m", "o", "n">>, <<" ", "v", "i", "m", " ", "\t", " ", "9", " ">>, <<"\t", "1", ".", "0">>, <<"l", "i", "n", "u", "x", "\t", "6">> >>

\* lines `flatpak list --app` can print
FlatpakLines ==
    << <<"o", "r", "g", ".", "G", "i", "m", "p", "\t", "2", ".", "1", "0", "\t", "s", "t", "a", "b", "l", "e", "\t", "f", "l", "a", "t", "h", "u", "b">>, <<>>, <<" ", " ", " ">>, <<"c", "o", "m", ".", "S", "l", "a", "c", "k">>,
       <<" ", " ", "o", "r", "g", ".", "v", "l", "c", " ", " ", "3", ".", "0", " ", " ">>, <<InvalidByte>> \o <<" ", "1">> >>

\* the header line of `snap list`
SnapHeader == <<"N", "a", "m", "e", " ", "V", "e", "r", "s", "i", "o", "n", " ", "R", "e", "v", " ", "T", "r", "a", "c", "k", "i", "n", "g", " ", "P", "u", "b", "l", "i", "s", "h", "e", "r", " ", "N", "o", "t", "e", "s">>

\* lines `snap list` can print after its header
SnapLines ==
    << <<"c", "o", "r", "e", "2", "0", " ", "2", "0", "2", "4", " ", "2", " ", "l", "a", "t", "e", "s", "t", "/", "s", "t", "a", "b", "l", "e", " ", "c", "a", "n", "o", "n", "i", "c", "a", "l", " ", "b", "a", "s", "e">>,
       <<"v", "l", "c", " ", "3", ".", "0", " ", "5", " ", "l", "a", "t", "e", "s", "t", "/", "s", "t", "a", "b", "l", "e", " ", "v", "i", "d", "e", "o", "l", "a", "n", " ", "-">>,
       <<"g", "n", "o", "m", "e", "-", "4", "2", " ", "0", " ", "1", " ", "l", "a", "t", "e", "s", "t", "/", "s", "t", "a", "b", "l", "e", " ", "c", "a", "n", "o", "n", "i", "c", "a", "l", " ", "-">>,
       <<"p", "c", " ", "2", "2", " ", "3", " ", "l", "a", "t", "e", "s", "t", "/", "s", "t", "a", "b", "l", "e", " ", "c", "a", "n", "o", "n", "i", "c", "a", "l", " ", "g", "a", "d", "g", "e", "t">>,
       <<"p", "c", "-", "k", "e", "r", "n", "e", "l", " ", "5", ".", "4", " ", "7", " ", "2", "0", "/", "s", "t", "a", "b", "l", "e", " ", "c", "a", "n", "o", "n", "i", "c", "a", "l", " ", "d", "i", "s", "a", "b", "l", "e", "d", ",", "k", "e", "r", "n", "e", "l">>,
       <<"g", "t", "k", "-", "c", " ", "1", " ", "1", " ", "l", "a", "t", "e", "s", "t", "/", "s", "t", "a", "b", "l", "e", " ", "c", "a", "n", "o", "n", "i", "c", "a", "l", " ", "-">>,
       <<"m", "e", "s", "a", "-", "c", " ", "1", " ", "1", " ", "l", "a", "t", "e", "s", "t", "/", "s", "t", "a", "b", "l", "e", " ", "c", "a", "n", "o", "n", "i", "c", "a", "l", " ", "c", "l", "a", "s", "s", "i", "c">>,
       <<"m", "y", "c", "o", "r", "e", " ", "1", " ", "1", " ", "l", "a", "t", "e", "s", "t", "/", "s", "t", "a", "b", "l", "e", " ", "m", "e", " ", "-">>,
       <<"f", "o", "o", " ", "k", "e", "r", "n", "e", "l", "5">>,
       <<"l", "o", "n", "e", "l", "y">>,
       <<" ", " ">> >>

\* the text made of the lines of pool at the positions in at, each ended by "\n"
Pick(pool, at) ==
    LET upto[k \in 0..Len(pool)] ==
            IF k = 0 THEN <<>>
            ELSE IF k \in at THEN upto[k - 1] \o pool[k] \o <<"\n">>
            ELSE upto[k - 1]
    IN  upto[Len(pool)]

\* the texts of at most max lines of pool, in the pool's order
Texts(pool, max) ==
    {Pick(pool, at) : at \in {a \in SUBSET (1..Len(pool)) : Cardinality(a) <= max}}

\* one output of each command on a machine where all of them are installed
AptMarkOut == Pick(ManualLines, {1, 2})
DpkgOut == Pick(DpkgLines, {1, 2, 7, 8})
FlatpakOut == Pick(FlatpakLines, {1, 2, 4})
SnapOut == SnapHeader \o <<"\n">> \o Pick(SnapLines, {1, 2})

\* the ways a command fails: it cannot be started, or it exits with a code other
\* than 0, with nothing, one line or several lines on its standard error
Failures ==
    { SpawnFailure(<<"N", "o", " ", "s", "u", "c", "h", " ", "f", "i", "l", "e", " ", "o", "r", " ", "d", "i", "r", "e", "c", "t", "o", "r", "y", " ", "(", "o", "s", " ", "e", "r", "r", "o", "r", " ", "2", ")">>),
      Exited(1, <<>>, <<>>),
      Exited(100, <<>>, <<"E", ":", " ", "l", "o", "c", "k", "e", "d", "\n">>),
      Exited(2, <<"p", "a", "r", "t", "i", "a", "l">>, <<"e", "r", "r", "o", "r", ":", " ", "a", "\n", "e", "r", "r", "o", "r", ":", " ", "b", "\n">>) }

\* the machine on which the four commands give these outcomes
Host(aptmark, dpkg, flatpak, snap) ==
    [bin \in Bins |->
        CASE bin = "apt-mark" -> aptmark
          [] bin = "dpkg-query" -> dpkg
          [] bin = "flatpak" -> flatpak
          [] bin = "snap" -> snap]

OkOrFailure(text, failures) == {Exited(0, text, <<>>)} \cup failures

\* machines on which each command either works or cannot be started / exits with 1
MainHosts ==
    { Host(a, d, f, s) :
        a \in OkOrFailure(AptMarkOut, {SpawnFailure(<<"N", "o", " ", "s", "u", "c", "h", " ", "f", "i", "l", "e", " ", "o", "r", " ", "d", "i", "r", "e", "c", "t", "o", "r", "y", " ", "(", "o", "s", " ", "e", "r", "r", "o", "r", " ", "2", ")">>)}),
        d \in OkOrFailure(DpkgOut, {Exited(1, <<>>, <<"d", "p", "k", "g", "-", "q", "u", "e", "r", "y", ":", " ", "e", "r", "r", "o", "r">>)}),
        f \in OkOrFailure(FlatpakOut, {SpawnFailure(<<"P", "e", "r", "m", "i", "s", "s", "i", "o", "n", " ", "d", "e", "n", "i", "e", "d", " ", "(", "o", "s", " ", "e", "r", "r", "o", "r", " ", "1", "3", ")">>)}),
        s \in OkOrFailure(SnapOut, {Exited(1, <<>>, <<>>)}) }

\* machines on which every command works and APT holds any of the generated listings
AptHosts ==
    { Host(Exited(0, m, <<>>), Exited(0, d, <<>>), Exited(0, FlatpakOut, <<>>),
           Exited(0, SnapOut, <<>>)) :
        m \in Texts(ManualLines, MaxManual), d \in Texts(DpkgLines, MaxLines) }

\* machines on which every command works and Flatpak prints any of the generated listings
FlatpakHosts ==
    { Host(Exited(0, AptMarkOut, <<>>), Exited(0, DpkgOut, <<>>), Exited(0, f, <<>>),
           Exited(0, SnapOut, <<>>)) :
        f \in Texts(FlatpakLines, MaxLines) }

\* the generated listings of `snap list`, with its header and without it
SnapTexts ==
    {h \o t : h \in {<<>>, SnapHeader \o <<"\n">>}, t \in Texts(SnapLines, MaxLines)}

\* machines on which every command works and Snap prints any of the generated listings
SnapHosts ==
    { Host(Exited(0, AptMarkOut, <<>>), Exited(0, DpkgOut, <<>>), Exited(0, FlatpakOut, <<>>),
           Exited(0, s, <<>>)) :
        s \in SnapTexts }

\* machines on which each command works or fails in any of the ways of Failures
FailingHosts ==
    { Host(a, d, f, s) :
        a \in OkOrFailure(AptMarkOut, Failures),
        d \in OkOrFailure(DpkgOut, Failures),
        f \in OkOrFailure(FlatpakOut, Failures),
        s \in OkOrFailure(SnapOut, Failures) }

\* what the user can type in the name filter and in the source filter
NameTerms == { <<>>, <<"L", "I", "B">>, <<"g", "i">> }
SourceTerms == { <<>>, <<"A", "P">>, <<"p", "a", "k">> }

-----------------------------------------------------------------------------
(* The application. *)

\* AppState::new: the initial state, and the load task started
InitOn(hosts) ==
    /\ host \in hosts
    /\ flatpak_packages = <<>>
    /\ apt_packages = <<>>
    /\ snap_packages = <<>>
    /\ current_page = "Apt"
    /\ name_search = <<>>
    /\ source_search = <<>>
    /\ include_system = FALSE
    /\ pc = "apt"
    /\ errors = <<>>
    /\ flatpak_apps = <<>>
    /\ apt_apps = <<>>
    /\ snap_apps = <<>>
    /\ calls = <<>>
    /\ spawned = <<>>
    /\ result = Pending
    /\ message = NoMessage
    /\ rendered = <<>>

Init == InitOn(MainHosts)

InitLoad == InitOn(AptHosts \cup FlatpakHosts \cup SnapHosts \cup FailingHosts)

\* LoadApt with the error of load_apt propagated as by the ? operator: the load
\* goes straight to its end, the other parsers not invoked
LoadApt_aborting ==
    /\ pc = "apt"
    /\ LET r == load_apt(host)
       IN  /\ apt_apps' = IF r.tag = "Ok" THEN r.value ELSE apt_apps
           /\ errors' = IF r.tag = "Ok" THEN errors
                        ELSE Append(errors, <<"A", "P", "T", " ", "e", "r", "r", "o", "r", ":", " ">> \o r.error)
           /\ pc' = IF r.tag = "Ok" THEN "flatpak" ELSE "finish"
    /\ calls' = Append(calls, "Apt")
    /\ spawned' = spawned \o load_apt_spawns(host)
    /\ UNCHANGED <<host, app_state, flatpak_apps, snap_apps, result, message, rendered>>

\* load_app_lists: match load_apt()
LoadApt ==
    /\ pc = "apt"
    /\ LET r == load_apt(host)
       IN  /\ apt_apps' = IF r.tag = "Ok" THEN r.value ELSE apt_apps
           /\ errors' = IF r.tag = "Ok" THEN errors
                        ELSE Append(errors, <<"A", "P", "T", " ", "e", "r", "r", "o", "r", ":", " ">> \o r.error)
    /\ calls' = Append(calls, "Apt")
    /\ spawned' = spawned \o load_apt_spawns(host)
    /\ pc' = "flatpak"
    /\ UNCHANGED <<host, app_state, flatpak_apps, snap_apps, result, message, rendered>>

\* load_app_lists: match load_flatpak()
LoadFlatpak ==
    /\ pc = "flatpak"
    /\ LET r == load_flatpak(host)
       IN  /\ flatpak_apps' = IF r.tag = "Ok" THEN r.value ELSE flatpak_apps
           /\ errors' = IF r.tag = "Ok" THEN errors
                        ELSE Append(errors, <<"F", "l", "a", "t", "p", "a", "k", " ", "e", "r", "r", "o", "r", ":", " ">> \o r.error)
    /\ calls' = Append(calls, "Flatpak")
    /\ spawned' = Append(spawned, "flatpak")
    /\ pc' = "snap"
    /\ UNCHANGED <<host, app_state, apt_apps, snap_apps, result, message, rendered>>

\* load_app_lists: match load_snap()
LoadSnap ==
    /\ pc = "snap"
    /\ LET r == load_snap(host)
       IN  /\ snap_apps' = IF r.tag = "Ok" THEN r.value ELSE snap_apps
           /\ errors' = IF r.tag = "Ok" THEN errors
                        ELSE Append(errors, <<"S", "n", "a", "p", " ", "e", "r", "r", "o", "r", ":", " ">> \o r.error)
    /\ calls' = Append(calls, "Snap")
    /\ spawned' = Append(spawned, "snap")
    /\ pc' = "finish"
    /\ UNCHANGED <<host, app_state, apt_apps, flatpak_apps, result, message, rendered>>

\* load_result returning the lists whatever the errors: a partial success
load_result_keeping_lists(errs, flatpak, apt, snap) ==
    Ok(PackageLists(flatpak, apt, snap))

\* load_app_lists: its value, from errors and the three lists
load_result(errs, flatpak, apt, snap) ==
    IF is_empty(errs) THEN Ok(PackageLists(flatpak, apt, snap))
    ELSE Err(join(errs, <<"\n">>))

\* load_app_lists: if errors.is_empty(); the task completes with the Result
LoadFinish ==
    /\ pc = "finish"
    /\ result' = load_result(errors, flatpak_apps, apt_apps, snap_apps)
    /\ pc' = "deliver"
    /\ UNCHANGED <<host, app_state, errors, apt_apps, flatpak_apps, snap_apps, calls,
                   spawned, message, rendered>>

\* update: Message::AppsLoaded(result)
AppsLoaded ==
    /\ pc = "deliver"
    /\ flatpak_packages' = IF result.tag = "Ok" THEN result.value.flatpak_packages
                           ELSE flatpak_packages
    /\ apt_packages' = IF result.tag = "Ok" THEN result.value.apt_packages
                       ELSE apt_packages
    /\ snap_packages' = IF result.tag = "Ok" THEN result.value.snap_packages
                        ELSE snap_packages
    /\ pc' = "done"
    /\ message' = Message("AppsLoaded", result)
    /\ UNCHANGED <<host, current_page, name_search, source_search, include_system,
                   errors, apt_apps, flatpak_apps, snap_apps, calls, spawned, result,
                   rendered>>

\* Navigate leaving the name filter as it is
Navigate_keeping_name(page) ==
    /\ current_page' = page
    /\ message' = Message("Navigate", page)
    /\ UNCHANGED <<host, apt_packages, flatpak_packages, snap_packages, name_search,
                   source_search, include_system, load_state, rendered>>

\* Navigate emptying the package sequences, as for a page not loaded yet
Navigate_clearing_packages(page) ==
    /\ current_page' = page
    /\ name_search' = <<>>
    /\ apt_packages' = <<>>
    /\ flatpak_packages' = <<>>
    /\ snap_packages' = <<>>
    /\ message' = Message("Navigate", page)
    /\ UNCHANGED <<host, source_search, include_system, load_state, rendered>>

\* update: Message::Navigate(page)
Navigate(page) ==
    /\ current_page' = page
    /\ name_search' = <<>>
    /\ message' = Message("Navigate", page)
    /\ UNCHANGED <<host, apt_packages, flatpak_packages, snap_packages, source_search,
                   include_system, load_state, rendered>>

\* update: Message::NameSearchChange(term)
NameSearchChange(term) ==
    /\ name_search' = term
    /\ message' = Message("NameSearchChange", term)
    /\ UNCHANGED <<host, apt_packages, flatpak_packages, snap_packages, current_page,
                   source_search, include_system, load_state, rendered>>

\* update: Message::SourceSearchChange(term)
SourceSearchChange(term) ==
    /\ source_search' = term
    /\ message' = Message("SourceSearchChange", term)
    /\ UNCHANGED <<host, apt_packages, flatpak_packages, snap_packages, current_page,
                   name_search, include_system, load_state, rendered>>

\* update: Message::IncludeSystemChange(include_system)
IncludeSystemChange(include) ==
    /\ include_system' = include
    /\ message' = Message("IncludeSystemChange", include)
    /\ UNCHANGED <<host, apt_packages, flatpak_packages, snap_packages, current_page,
                   name_search, source_search, load_state, rendered>>

\* get_page on the application state
visible ==
    get_page(current_page, apt_packages, flatpak_packages, snap_packages,
             name_search, source_search, include_system)

\* AppState::view
View ==
    /\ rendered' = visible
    /\ UNCHANGED <<host, app_state, load_state, message>>

\* the load task, up to the delivery of its message
NextLoad ==
    \/ LoadApt
    \/ LoadFlatpak
    \/ LoadSnap
    \/ LoadFinish
    \/ AppsLoaded

Next ==
    \/ LoadApt
    \/ LoadFlatpak
    \/ LoadSnap
    \/ LoadFinish
    \/ AppsLoaded
    \/ \E page \in Pages : Navigate(page)
    \/ \E term \in NameTerms : NameSearchChange(term)
    \/ \E term \in SourceTerms : SourceSearchChange(term)
    \/ \E include \in BOOLEAN : IncludeSystemChange(include)
    \/ View

\* the application, on the machines of MainHosts
Spec == Init /\ [][Next]_vars

\* the load alone, on machines with any of the generated outputs and failures
SpecLoad == InitLoad /\ [][NextLoad]_vars

-----------------------------------------------------------------------------
(* What the claims speak of, stated apart from the code's own operators. *)

\* p is the beginning of s, and p is the end of s
HasPrefix(s, p) == Len(s) >= Len(p) /\ \A i \in 1..Len(p) : s[i] = p[i]
HasSuffix(s, p) == Len(s) >= Len(p) /\ \A i \in 1..Len(p) : s[Len(s) - Len(p) + i] = p[i]

\* p occurs in s
Occurs(s, p) ==
    \E at \in 0..Len(s) : at + Len(p) <= Len(s) /\ \A i \in 1..Len(p) : s[at + i] = p[i]

\* the elements of a sequence
Range(seq) == {seq[k] : k \in 1..Len(seq)}

\* the command ran and exited with 0
Worked(bin) == host[bin].launched /\ host[bin].code = 0

\* the source's parser fails on this machine
Failed(source) ==
    CASE source = "Apt" -> ~Worked("apt-mark") \/ ~Worked("dpkg-query")
      [] source = "Flatpak" -> ~Worked("flatpak")
      [] source = "Snap" -> ~Worked("snap")

FailedSources == {source \in Sources : Failed(source)}

\* the parser of the source has been invoked
Invoked(source) == source \in Range(calls)

\* the lines of what the command printed
OutputLines(bin) == lines(from_utf8_lossy(host[bin].stdout))

\* the name is in the manual-install set: `apt-mark showmanual` lists it
IsManual(name) == \E l \in Range(OutputLines("apt-mark")) : trim(l) = name

\* the name matches a meta pattern
MetaPattern(name) ==
    \/ HasPrefix(name, <<"l", "i", "n", "u", "x", "-">>)
    \/ HasPrefix(name, <<"l", "a", "n", "g", "u", "a", "g", "e", "-", "p", "a", "c", "k", "-">>)
    \/ HasSuffix(name, <<"-", "d", "a", "t", "a">>)
    \/ HasSuffix(name, <<"-", "c", "o", "m", "m", "o", "n">>)

\* C1: every package record load_apt emits has is_system false exactly when its
\* name is in the manual-install set, does not start with "lib" and matches no
\* meta pattern; in every other case is_system is true.
C1_AptClassification ==
    (Invoked("Apt") /\ ~Failed("Apt")) =>
        \A p \in Range(apt_apps) :
            /\ p.is_system \in BOOLEAN
            /\ p.is_system = FALSE <=>
                   (IsManual(p.name) /\ ~HasPrefix(p.name, <<"l", "i", "b">>) /\ ~MetaPattern(p.name))

\* C1: load_apt has emitted a user package and a manually installed package that
\* is system because its name matches a meta pattern
C1_Witness ==
    /\ Invoked("Apt") /\ ~Failed("Apt")
    /\ \E p \in Range(apt_apps) : ~p.is_system
    /\ \E p \in Range(apt_apps) : p.is_system /\ IsManual(p.name) /\ MetaPattern(p.name)

\* the columns of the lines of `snap list` that load_snap emits a record for: the
\* lines after the first that hold at least two columns
SnapRows ==
    LET ls == OutputLines("snap")
        cols == [k \in 1..Len(ls) |-> [at |-> k, cols |-> split_whitespace(ls[k])]]
        emits(r) == r.at > 1 /\ Len(r.cols) >= 2
        rows == SelectSeq(cols, emits)
    IN  [j \in 1..Len(rows) |-> rows[j].cols]

\* the notes column of a line: its last column, which comes after the name and the
\* version; a line of two columns holds a name and a version and no notes
NotesColumn(cols) == IF Len(cols) >= 3 THEN cols[Len(cols)] ELSE <<>>

\* the role a notes column gives, and the names of the shared runtimes
RuntimeNotes(notes) ==
    Occurs(notes, <<"b", "a", "s", "e">>) \/ Occurs(notes, <<"k", "e", "r", "n", "e", "l">>) \/ Occurs(notes, <<"g", "a", "d", "g", "e", "t">>)
RuntimeName(name) ==
    \/ HasPrefix(name, <<"c", "o", "r", "e">>)
    \/ HasPrefix(name, <<"g", "n", "o", "m", "e", "-">>)
    \/ HasPrefix(name, <<"g", "t", "k", "-">>)
    \/ HasPrefix(name, <<"m", "e", "s", "a", "-">>)

\* C3: every package record load_snap emits has is_system true exactly when the
\* notes column of its line contains "base", "kernel" or "gadget" or its name
\* starts with "core", "gnome-", "gtk-" or "mesa-": the classification depends on
\* the name and the notes column only, not on the version.
C3_SnapClassification ==
    (Invoked("Snap") /\ ~Failed("Snap")) =>
        /\ Len(snap_apps) = Len(SnapRows)
        /\ \A j \in 1..Len(snap_apps) :
               /\ snap_apps[j].name = SnapRows[j][1]
               /\ snap_apps[j].is_system = TRUE <=>
                      (RuntimeNotes(NotesColumn(SnapRows[j])) \/ RuntimeName(SnapRows[j][1]))

\* the lines of a text
LineCount(text) == 1 + Cardinality({i \in 1..Len(text) : text[i] = "\n"})

\* C4: the combined error message of load_app_lists holds exactly one line per
\* failed source, whatever made the sources fail, and the load succeeds with no
\* error message when no source fails.
C4_OneLinePerFailedSource ==
    pc \in {"deliver", "done"} =>
        IF FailedSources = {} THEN result.tag = "Ok"
        ELSE result.tag = "Err" /\ LineCount(result.error) = Cardinality(FailedSources)

\* the lines of a listing that yield a name: a non-empty name field for dpkg-query,
\* a column for Flatpak, two columns after the header line for Snap
NamedLines(bin) ==
    LET ls == OutputLines(bin)
    IN  CASE bin = "dpkg-query" ->
                {k \in 1..Len(ls) : \E i \in 1..Len(split(ls[k], "\t")[1]) :
                                        ~IsWhitespace(split(ls[k], "\t")[1][i])}
          [] bin = "flatpak" ->
                {k \in 1..Len(ls) : \E i \in 1..Len(ls[k]) : ~IsWhitespace(ls[k][i])}
          [] bin = "snap" ->
                {k \in 2..Len(ls) : Len(split_whitespace(ls[k])) >= 2}

\* C8: every package of the three sequences of the application, and of the lists
\* of the load, has a non-empty name; when all commands work the load succeeds and
\* each list holds one record per line that yields a name, none for the others.
C8_NonEmptyNames ==
    /\ \A p \in Range(apt_packages \o flatpak_packages \o snap_packages
                      \o apt_apps \o flatpak_apps \o snap_apps) : Len(p.name) > 0
    /\ (pc = "done" /\ FailedSources = {}) =>
           /\ result.tag = "Ok"
           /\ Len(apt_packages) = Cardinality(NamedLines("dpkg-query"))
           /\ Len(flatpak_packages) = Cardinality(NamedLines("flatpak"))
           /\ Len(snap_packages) = Cardinality(NamedLines("snap"))

\* C8: the load is over and has given the application packages, from listings of
\* which dpkg-query's holds a line with no name, Flatpak's a blank line and Snap's
\* a header line and a line of one column
C8_Witness ==
    /\ pc = "done"
    /\ Len(apt_packages) > 0 /\ Len(flatpak_packages) > 0
    /\ Cardinality(NamedLines("dpkg-query")) < Len(OutputLines("dpkg-query"))
    /\ Cardinality(NamedLines("flatpak")) < Len(OutputLines("flatpak"))
    /\ Len(OutputLines("snap")) >= 2
    /\ \E l \in Range(Tail(OutputLines("snap"))) : Len(split_whitespace(l)) = 1

\* C9: the parsers are invoked in the order APT, Flatpak, Snap, each once, and the
\* load has its result only after all three have been invoked, whether or not an
\* earlier one failed.
C9_ParsersInOrder ==
    /\ \E n \in 0..3 : calls = SubSeq(<<"Apt", "Flatpak", "Snap">>, 1, n)
    /\ (result # Pending \/ pc \in {"finish", "deliver", "done"}) =>
           calls = <<"Apt", "Flatpak", "Snap">>
    /\ \A source \in Sources : (Invoked(source) /\ Failed(source)) => Len(errors) > 0

\* C9: the load has its result, the APT parser failed at its first command, and
\* the Flatpak and Snap parsers ran their commands after it
C9_Witness ==
    /\ pc = "done"
    /\ ~Worked("apt-mark")
    /\ calls = <<"Apt", "Flatpak", "Snap">>
    /\ spawned = <<"apt-mark", "flatpak", "snap">>
    /\ Worked("flatpak") /\ Worked("snap")

\* two characters that differ at most by their case
SameLetter(a, b) ==
    \/ a = b
    \/ \E i \in 1..Len(UpperCase) : {a, b} = {UpperCase[i], LowerCase[i]}

\* p occurs in s, the case of the letters set aside
OccursFolded(s, p) ==
    \E at \in 0..Len(s) :
        at + Len(p) <= Len(s) /\ \A i \in 1..Len(p) : SameLetter(s[at + i], p[i])

\* the display string of a source, lowercased
LowerDisplay(source) ==
    CASE source = "Apt" -> <<"a", "p", "t">>
      [] source = "Flatpak" -> <<"f", "l", "a", "t", "p", "a", "k">>
      [] source = "Snap" -> <<"s", "n", "a", "p">>

\* the three conditions of visibility
VisibleByRule(pkg, name, source, include) ==
    /\ name = <<>> \/ OccursFolded(pkg.name, name)
    /\ source = <<>> \/ OccursFolded(LowerDisplay(pkg.source), source)
    /\ ~pkg.is_system \/ include

\* the three package sequences of the application
package_lists == <<apt_packages, flatpak_packages, snap_packages>>

\* the unfiltered list of a page
FullList(page) ==
    CASE page = "Apt" -> apt_packages
      [] page = "Flatpak" -> flatpak_packages
      [] page = "Snap" -> snap_packages
      [] page = "All" -> apt_packages \o flatpak_packages \o snap_packages

\* C2: filter_package reports a package visible exactly when the name filter is
\* empty or occurs in the name, the source filter is empty or occurs in the
\* source's display string, both compared in lowercase, and the package is not
\* system or include_system is set; the page shows the packages so reported.
C2_FilterPredicate ==
    /\ \A pkg \in Range(apt_packages \o flatpak_packages \o snap_packages) :
           filter_package(pkg, name_search, source_search, include_system)
               <=> VisibleByRule(pkg, name_search, source_search, include_system)
    /\ Range(visible) =
           {pkg \in Range(FullList(current_page)) :
                VisibleByRule(pkg, name_search, source_search, include_system)}

\* C2: the packages are loaded, a name filter and a source filter are set, and
\* the page displayed shows some of its packages and hides others
C2_Witness ==
    /\ pc = "done"
    /\ name_search # <<>> /\ source_search # <<>>
    /\ rendered = visible
    /\ 0 < Len(visible) /\ Len(visible) < Len(FullList(current_page))

\* C5 as stated: when some parsers fail and others succeed, the failure is
\* reported and the application receives the lists of the parsers that succeeded.
C5_SucceededSourcesDelivered ==
    (pc = "done" /\ FailedSources # {} /\ FailedSources # Sources) =>
        /\ result.tag = "Err"
        /\ ~Failed("Apt") => apt_packages = apt_apps
        /\ ~Failed("Flatpak") => flatpak_packages = flatpak_apps
        /\ ~Failed("Snap") => snap_packages = snap_apps

\* the label load_app_lists gives the error of a source
ErrorLabel(source) ==
    CASE source = "Apt" -> <<"A", "P", "T", " ", "e", "r", "r", "o", "r", ":", " ">>
      [] source = "Flatpak" -> <<"F", "l", "a", "t", "p", "a", "k", " ", "e", "r", "r", "o", "r", ":", " ">>
      [] source = "Snap" -> <<"S", "n", "a", "p", " ", "e", "r", "r", "o", "r", ":", " ">>

\* C5, amended: when a parser fails the load reports the failure of every failed
\* source and its result is that error alone; the lists of the parsers that
\* succeeded are dropped and the sequences of the application stay empty.
C5_FailureDropsLists ==
    (pc \in {"deliver", "done"} /\ FailedSources # {}) =>
        /\ result.tag = "Err"
        /\ DOMAIN result = {"tag", "error"}
        /\ \A source \in FailedSources : Occurs(result.error, ErrorLabel(source))
        /\ pc = "done" => package_lists = <<<<>>, <<>>, <<>>>>

\* C5: the load is over, Snap failed, APT was parsed into a list that is not
\* empty, and the application holds no APT package
C5_Witness ==
    /\ pc = "done"
    /\ Failed("Snap") /\ ~Failed("Apt") /\ ~Failed("Flatpak")
    /\ Len(apt_apps) > 0 /\ Len(flatpak_apps) > 0
    /\ apt_packages = <<>> /\ flatpak_packages = <<>>

\* C6: the three package sequences change only when update handles AppsLoaded
\* with an Ok result; every other message, a failed load and view leave them.
C6_OnlyLoadChangesPackages ==
    [][/\ package_lists' # package_lists =>
              (pc = "deliver" /\ result.tag = "Ok" /\ message' = Message("AppsLoaded", result))
       /\ (message' # message /\ message'.type # "AppsLoaded") =>
              package_lists' = package_lists
       /\ (message' = Message("AppsLoaded", result) /\ pc = "deliver" /\ result.tag = "Err") =>
              package_lists' = package_lists
       /\ rendered' # rendered => package_lists' = package_lists]_vars

\* C6: after the load gave the application its packages, other messages were
\* handled and a filtered page was displayed
C6_Witness ==
    /\ pc = "done" /\ result.tag = "Ok"
    /\ Len(apt_packages) > 0 /\ Len(snap_packages) > 0
    /\ message.type = "Navigate"
    /\ source_search # <<>> /\ include_system
    /\ Len(rendered) > 0

\* C7: with both filters empty and include_system set, the visible list of the
\* page is its whole list in order: a source's sequence, or APT then Flatpak then
\* Snap on the All page.
C7_NoFilterShowsAll ==
    (name_search = <<>> /\ source_search = <<>> /\ include_system = TRUE) =>
        visible = FullList(current_page)

\* C7: the packages are loaded, no filter is set, system packages are included,
\* and the All page displays packages of the three sources, system ones too
C7_Witness ==
    /\ pc = "done"
    /\ name_search = <<>> /\ source_search = <<>> /\ include_system = TRUE
    /\ current_page = "All"
    /\ rendered = visible
    /\ {p.source : p \in Range(rendered)} = Sources
    /\ \E p \in Range(rendered) : p.is_system

\* C10: handling Navigate(page) sets the page, empties the name filter and
\* leaves the source filter, include_system and the package sequences.
C10_NavigateFrame ==
    [][(message' # message /\ message'.type = "Navigate") =>
           /\ current_page' = message'.arg
           /\ name_search' = <<>>
           /\ source_search' = source_search
           /\ include_system' = include_system
           /\ package_lists' = package_lists]_vars

\* C10: Navigate was handled last, to another page than the first, where the
\* source filter typed before is in force and the name filter is empty
C10_Witness ==
    /\ pc = "done"
    /\ message.type = "Navigate" /\ current_page = "Snap"
    /\ source_search # <<>> /\ name_search = <<>>
    /\ 0 < Len(visible) /\ Len(visible) < Len(snap_packages)

====
